---- MODULE Spec2Model ----
(***************************************************************************)
(* PostgreSQL MCP server: the dynamic query construction of the CRUD       *)
(* operations (postgres_mcp_server2.py), their connection life cycle, and  *)
(* the three dispatchers that call them (call_tool over stdio and the two  *)
(* HTTP /execute handlers).                                                *)
(*                                                                         *)
(* SQL text is a sequence of tokens (keyword, identifier, placeholder $n,  *)
(* inlined literal, inlined value); a Python dict is a sequence of         *)
(* key/value items in insertion order; a scalar value is a typed text.     *)
(***************************************************************************)
EXTENDS Integers, Sequences, FiniteSets, TLC

VARIABLES
    pc,       \* pc[p]: where invocation p stands
    req,      \* req[p]: the request the dispatcher received
    branch,   \* branch[p]: what the dispatch ladder did with the request
    call,     \* call[p]: the engine operation invoked and its actual arguments
    conn,     \* conn[p]: the operation's local `conn` (0: none acquired)
    pending,  \* pending[p]: what the try block produced, held while finally runs
    outcome,  \* outcome[p]: how the engine operation ended (returned / raised)
    resp,     \* resp[p]: the dispatcher's response
    conns,    \* every connection opened so far, by id
    bq,       \* query builder input (builder specification)
    bres      \* query builder output (builder specification)

vars == <<pc, req, branch, call, conn, pending, outcome, resp, conns, bq, bres>>

(***************************************************************************)
(* Bounds                                                                  *)
(***************************************************************************)
MaxLen == 2        \* longest data / conditions mapping given to the builders
MaxArgLen == 1     \* longest mapping in a dispatched request
MaxLimit == 1      \* largest limit
NumInv == 2        \* concurrently running invocations

(***************************************************************************)
(* Values, mappings, arguments                                             *)
(***************************************************************************)
IntV(s) == [ty |-> "int", v |-> s]
StrV(s) == [ty |-> "str", v |-> s]
DatetimeV(s) == [ty |-> "datetime", v |-> s]

Tables == {"users"}
Columns == {"id", "age", "calculated_time"}
Values == {IntV("1"), IntV("31")}
IsoStrings == {"2025-10-17T00:00:00"}
ReqColumns == {"id", "calculated_time"}
ReqValues == {StrV("2025-10-17T00:00:00"), StrV("Alice")}

Item(k, v) == [k |-> k, v |-> v]
keys(d) == [i \in 1..Len(d) |-> d[i].k]
values(d) == [i \in 1..Len(d) |-> d[i].v]

\* dicts over columns C and values V with at most n items (keys unique)
Dicts(C, V, n) ==
    { d \in UNION { [1..m -> [k : C, v : V]] : m \in 0..n } :
        \A i, j \in 1..Len(d) : i /= j => d[i].k /= d[j].k }

\* an argument that is absent from the JSON object, null (None), or a dict
Absent == [tag |-> "absent", items |-> <<>>]
None == [tag |-> "none", items |-> <<>>]
Dict(d) == [tag |-> "dict", items |-> d]
NoLimit == [tag |-> "none", n |-> 0]
AbsentLimit == [tag |-> "absent", n |-> 0]
Limit(n) == [tag |-> "int", n |-> n]

\* Python truthiness of an Optional[dict] / Optional[int]
TruthyDict(a) == a.tag = "dict" /\ Len(a.items) > 0
TruthyInt(l) == l.tag = "int" /\ l.n /= 0

\* arguments.get(key): None when the key is absent
Get(a) == IF a.tag = "absent" THEN None ELSE a
GetLimit(l) == IF l.tag = "absent" THEN NoLimit ELSE l

(***************************************************************************)
(* SQL text                                                                *)
(***************************************************************************)
Kw(s) == [kind |-> "kw", text |-> s, n |-> 0]
Id(s) == [kind |-> "id", text |-> s, n |-> 0]
Ph(i) == [kind |-> "ph", text |-> "$", n |-> i]
Lit(n) == [kind |-> "lit", text |-> "", n |-> n]
\* a value written into the text (no builder of the source emits it)
Inlined(v) == [kind |-> "val", text |-> v.v, n |-> 0]

RECURSIVE Join(_, _)
Join(sep, parts) ==
    IF Len(parts) = 0 THEN <<>>
    ELSE IF Len(parts) = 1 THEN parts[1]
    ELSE parts[1] \o <<sep>> \o Join(sep, Tail(parts))

\* f"{k} = ${i + start + 1}" for i, k in enumerate(d.keys())
Clauses(d, start) ==
    [i \in 1..Len(d) |-> <<Id(d[i].k), Kw("="), Ph(i + start)>>]

Built(sql, params) == [kind |-> "built", sql |-> sql, params |-> params, exc |-> ""]
BuildRaised(e) == [kind |-> "raised", sql |-> <<>>, params |-> <<>>, exc |-> e]
NotBuilt == [kind |-> "none", sql |-> <<>>, params |-> <<>>, exc |-> ""]

\* faulty variant of create_query: placeholders numbered from $0
create_query_shifted(table, data) ==
    IF data.tag /= "dict" THEN BuildRaised("AttributeError")
    ELSE LET d == data.items IN
         Built(<<Kw("INSERT INTO"), Id(table), Kw("(")>>
                 \o Join(Kw(","), [i \in 1..Len(d) |-> <<Id(d[i].k)>>])
                 \o <<Kw(") VALUES (")>>
                 \o Join(Kw(","), [i \in 1..Len(d) |-> <<Ph(i - 1)>>])
                 \o <<Kw(") RETURNING id;")>>,
               values(d))

create_query(table, data) ==
    IF data.tag /= "dict" THEN BuildRaised("AttributeError")
    ELSE LET d == data.items IN
         Built(<<Kw("INSERT INTO"), Id(table), Kw("(")>>
                 \o Join(Kw(","), [i \in 1..Len(d) |-> <<Id(d[i].k)>>])
                 \o <<Kw(") VALUES (")>>
                 \o Join(Kw(","), [i \in 1..Len(d) |-> <<Ph(i)>>])
                 \o <<Kw(") RETURNING id;")>>,
               values(d))

read_query(table, conditions, limit) ==
    LET where == IF TruthyDict(conditions)
                 THEN <<Kw("WHERE")>> \o Join(Kw("AND"), Clauses(conditions.items, 0))
                 ELSE <<>>
        params == IF TruthyDict(conditions) THEN values(conditions.items) ELSE <<>>
        lim == IF TruthyInt(limit) THEN <<Kw("LIMIT"), Lit(limit.n)>> ELSE <<>>
    IN  Built(<<Kw("SELECT * FROM"), Id(table)>> \o where \o lim, params)

\* faulty variant of update_query: WHERE placeholders restart at $1
update_query_restart(table, data, conditions) ==
    IF data.tag /= "dict" \/ conditions.tag /= "dict"
    THEN BuildRaised("AttributeError")
    ELSE Built(<<Kw("UPDATE"), Id(table), Kw("SET")>>
                 \o Join(Kw(","), Clauses(data.items, 0))
                 \o <<Kw("WHERE")>>
                 \o Join(Kw("AND"), Clauses(conditions.items, 0)),
               values(data.items) \o values(conditions.items))

update_query(table, data, conditions) ==
    IF data.tag /= "dict" \/ conditions.tag /= "dict"
    THEN BuildRaised("AttributeError")
    ELSE LET where_start == Len(data.items) IN
         Built(<<Kw("UPDATE"), Id(table), Kw("SET")>>
                 \o Join(Kw(","), Clauses(data.items, 0))
                 \o <<Kw("WHERE")>>
                 \o Join(Kw("AND"), Clauses(conditions.items, where_start)),
               values(data.items) \o values(conditions.items))

\* faulty variant of delete_query: values concatenated into the text
delete_query_inline(table, conditions) ==
    IF conditions.tag /= "dict" THEN BuildRaised("AttributeError")
    ELSE Built(<<Kw("DELETE FROM"), Id(table), Kw("WHERE")>>
                 \o Join(Kw("AND"),
                         [i \in 1..Len(conditions.items) |->
                            <<Id(conditions.items[i].k), Kw("="),
                              Inlined(conditions.items[i].v)>>]),
               <<>>)

delete_query(table, conditions) ==
    IF conditions.tag /= "dict" THEN BuildRaised("AttributeError")
    ELSE Built(<<Kw("DELETE FROM"), Id(table), Kw("WHERE")>>
                 \o Join(Kw("AND"), Clauses(conditions.items, 0)),
               values(conditions.items))

list_tables_query ==
    Built(<<Kw("SELECT table_name FROM information_schema.tables WHERE table_schema='public';")>>,
          <<>>)

describe_table_query(table) ==
    Built(<<Kw("SELECT column_name, data_type, is_nullable, column_default FROM information_schema.columns WHERE table_name ="),
            Ph(1), Kw(";")>>,
          <<StrV(table)>>)

get_base_site_query(table) ==
    Built(<<Kw("SELECT base_site FROM"), Id(table),
            Kw("ORDER BY calculated_time DESC LIMIT 1;")>>,
          <<>>)

\* the statement an engine operation builds from its actual arguments
Query(c) ==
    CASE c.op = "create_record" -> create_query(c.table, c.data)
      [] c.op = "read_records" -> read_query(c.table, c.conditions, c.limit)
      [] c.op = "update_records" -> update_query(c.table, c.data, c.conditions)
      [] c.op = "delete_records" -> delete_query(c.table, c.conditions)
      [] c.op = "list_tables" -> list_tables_query
      [] c.op = "describe_table" -> describe_table_query(c.table)
      [] c.op = "get_base_site" -> get_base_site_query(c.table)

Call(op, table, data, conditions, limit) ==
    [op |-> op, table |-> table, data |-> data, conditions |-> conditions,
     limit |-> limit]
NoCall == Call("none", "", None, None, NoLimit)

(***************************************************************************)
(* Requests and the three dispatch ladders                                 *)
(***************************************************************************)
ToolCatalog ==
    {"pg_create_record", "pg_read_records", "pg_update_records",
     "pg_delete_records", "pg_list_tables", "pg_describe_table",
     "insert_in_postgres", "get_from_postgres", "get_base_site"}
ToolNames == ToolCatalog \cup {"pg_drop_table"}
Fronts == {"stdio", "http1", "http2"}

ArgDicts == {Absent, None} \cup { Dict(d) : d \in Dicts(ReqColumns, ReqValues, MaxArgLen) }
ArgLimits == {AbsentLimit} \cup { Limit(n) : n \in 0..MaxLimit }

Requests ==
    [front : Fronts, tool : ToolNames, table : Tables, data : ArgDicts,
     conditions : ArgDicts, limit : ArgLimits]
NoRequest ==
    [front |-> "", tool |-> "", table |-> "", data |-> Absent,
     conditions |-> Absent, limit |-> AbsentLimit]

\* what a ladder does with a request: call an engine operation, take its
\* unknown-tool branch, raise while reading the arguments, or return early
DoCall(c) == [kind |-> "call", call |-> c, exc |-> ""]
DoUnknown == [kind |-> "unknown", call |-> NoCall, exc |-> ""]
DoRaise(e) == [kind |-> "raise", call |-> NoCall, exc |-> e]
DoEarly(e) == [kind |-> "early", call |-> NoCall, exc |-> e]
NoBranch == [kind |-> "none", call |-> NoCall, exc |-> ""]

\* arguments[key] for each argument in args, then the call of c: KeyError
\* when a key is absent
Subscript(args, c) ==
    IF \E a \in args : a.tag = "absent" THEN DoRaise("KeyError") ELSE DoCall(c)

\* datetime.fromisoformat on every str item under "calculated_time"
NeedsConversion(it) == it.k = "calculated_time" /\ it.v.ty = "str"
ConvertTime(d) ==
    [i \in 1..Len(d) |->
        IF NeedsConversion(d[i]) THEN Item(d[i].k, DatetimeV(d[i].v.v)) ELSE d[i]]

\* call_tool(name, arguments): the if / elif ladder of the stdio dispatcher
call_tool_ladder(r) ==
    IF r.tool = "pg_create_record"
    THEN Subscript({r.data}, Call("create_record", r.table, r.data, None, NoLimit))
    ELSE IF r.tool = "pg_read_records"
    THEN DoCall(Call("read_records", r.table, None, Get(r.conditions), GetLimit(r.limit)))
    ELSE IF r.tool = "pg_update_records"
    THEN Subscript({r.data, r.conditions},
                   Call("update_records", r.table, r.data, r.conditions, NoLimit))
    ELSE IF r.tool = "pg_delete_records"
    THEN Subscript({r.conditions},
                   Call("delete_records", r.table, None, r.conditions, NoLimit))
    ELSE IF r.tool = "pg_list_tables"
    THEN DoCall(Call("list_tables", "", None, None, NoLimit))
    ELSE IF r.tool = "pg_describe_table"
    THEN DoCall(Call("describe_table", r.table, None, None, NoLimit))
    ELSE IF r.tool = "insert_in_postgres"
    THEN LET data == Get(r.data) IN
         IF ~TruthyDict(data) THEN DoEarly("Missing 'data' argument")
         ELSE IF \E i \in 1..Len(data.items) :
                     NeedsConversion(data.items[i])
                     /\ data.items[i].v.v \notin IsoStrings
              THEN DoRaise("ValueError")
              ELSE DoCall(Call("create_record", r.table,
                               Dict(ConvertTime(data.items)), None, NoLimit))
    ELSE IF r.tool = "get_from_postgres"
    THEN DoCall(Call("read_records", r.table, None, Get(r.conditions), GetLimit(r.limit)))
    ELSE IF r.tool = "get_base_site"
    THEN DoCall(Call("get_base_site", r.table, None, None, NoLimit))
    ELSE DoUnknown

\* execute_tool of mcp_http_wrapper.py; its second and third
\* "insert_in_postgres" branches follow the first and are never taken
execute_tool_ladder(r) ==
    IF r.tool = "pg_create_record"
    THEN Subscript({r.data}, Call("create_record", r.table, r.data, None, NoLimit))
    ELSE IF r.tool = "pg_read_records"
    THEN DoCall(Call("read_records", r.table, None, Get(r.conditions), GetLimit(r.limit)))
    ELSE IF r.tool = "pg_update_records"
    THEN Subscript({r.data, r.conditions},
                   Call("update_records", r.table, r.data, r.conditions, NoLimit))
    ELSE IF r.tool = "pg_delete_records"
    THEN Subscript({r.conditions},
                   Call("delete_records", r.table, None, r.conditions, NoLimit))
    ELSE IF r.tool = "pg_list_tables"
    THEN DoCall(Call("list_tables", "", None, None, NoLimit))
    ELSE IF r.tool = "pg_describe_table"
    THEN DoCall(Call("describe_table", r.table, None, None, NoLimit))
    ELSE IF r.tool = "insert_in_postgres"
    THEN Subscript({r.data}, Call("create_record", r.table, r.data, None, NoLimit))
    ELSE IF r.tool = "insert_in_postgres"
    THEN Subscript({r.data}, Call("read_records", r.table, None, r.data, NoLimit))
    ELSE IF r.tool = "insert_in_postgres"
    THEN Subscript({r.data}, Call("read_records", r.table, None, r.data, NoLimit))
    ELSE DoUnknown

\* execute_tool of mcp_http_wrapper2.py
execute_tool2_ladder(r) ==
    IF r.tool = "pg_create_record" \/ r.tool = "insert_in_postgres"
    THEN Subscript({r.data}, Call("create_record", r.table, r.data, None, NoLimit))
    ELSE IF r.tool = "pg_read_records" \/ r.tool = "get_from_postgres"
    THEN DoCall(Call("read_records", r.table, None, Get(r.conditions), GetLimit(r.limit)))
    ELSE IF r.tool = "pg_update_records"
    THEN Subscript({r.data, r.conditions},
                   Call("update_records", r.table, r.data, r.conditions, NoLimit))
    ELSE IF r.tool = "pg_delete_records"
    THEN Subscript({r.conditions},
                   Call("delete_records", r.table, None, r.conditions, NoLimit))
    ELSE IF r.tool = "pg_list_tables"
    THEN DoCall(Call("list_tables", "", None, None, NoLimit))
    ELSE IF r.tool = "pg_describe_table"
    THEN DoCall(Call("describe_table", r.table, None, None, NoLimit))
    ELSE IF r.tool = "get_base_site"
    THEN DoCall(Call("get_base_site", r.table, None, None, NoLimit))
    ELSE DoUnknown

Ladder(r) ==
    CASE r.front = "stdio" -> call_tool_ladder(r)
      [] r.front = "http1" -> execute_tool_ladder(r)
      [] r.front = "http2" -> execute_tool2_ladder(r)

(***************************************************************************)
(* Outcomes and responses                                                  *)
(***************************************************************************)
Returned(payload) == [kind |-> "returned", success |-> TRUE, payload |-> payload, exc |-> ""]
Raised(e) == [kind |-> "raised", success |-> FALSE, payload |-> "", exc |-> e]
NoOutcome == [kind |-> "none", success |-> FALSE, payload |-> "", exc |-> ""]

\* the success envelopes of each engine operation
Envelopes(op) ==
    CASE op = "create_record" -> {"inserted_id"}
      [] op = "read_records" -> {"data"}
      [] op = "update_records" -> {"message"}
      [] op = "delete_records" -> {"message"}
      [] op = "list_tables" -> {"tables"}
      [] op = "describe_table" -> {"columns"}
      [] op = "get_base_site" -> {"base_site", "base_site_null"}

Response(status, kind, detail) == [status |-> status, kind |-> kind, detail |-> detail]
NoResponse == Response(0, "none", "")

\* the handler's response once the ladder has ended with b and, when it
\* called an engine operation, that operation has ended with o
call_tool_response(b, o) ==
    CASE b.kind = "call" /\ o.kind = "returned" -> Response(0, "result", o.payload)
      [] b.kind = "call" /\ o.kind = "raised" -> Response(0, "error", o.exc)
      [] b.kind = "unknown" -> Response(0, "result", "Unknown tool")
      [] b.kind = "raise" -> Response(0, "error", b.exc)
      [] b.kind = "early" -> Response(0, "error", b.exc)

\* `except Exception` of /execute: whatever the try block raised, the
\* HTTPException(400) of the unknown-tool branch included (HTTPException is
\* an Exception), is re-raised as HTTPException(500, str(e))
except_Exception(status, detail) == Response(500, "error", detail)

execute_tool_response(b, o) ==
    CASE b.kind = "call" /\ o.kind = "returned" -> Response(200, "result", o.payload)
      [] b.kind = "call" /\ o.kind = "raised" -> except_Exception(0, o.exc)
      [] b.kind = "unknown" -> except_Exception(400, "Unknown tool name")
      [] b.kind = "raise" -> except_Exception(0, b.exc)

Respond(r, b, o) ==
    IF r.front = "stdio" THEN call_tool_response(b, o) ELSE execute_tool_response(b, o)

(***************************************************************************)
(* State                                                                   *)
(***************************************************************************)
Procs == 1..NumInv

Connection(p) ==
    [owner |-> p, open |-> TRUE, closes |-> 0, stmts |-> <<>>,
     users |-> {}, closers |-> {}]

InitEngine ==
    /\ pc = [p \in Procs |-> "idle"]
    /\ req = [p \in Procs |-> NoRequest]
    /\ branch = [p \in Procs |-> NoBranch]
    /\ call = [p \in Procs |-> NoCall]
    /\ conn = [p \in Procs |-> 0]
    /\ pending = [p \in Procs |-> NoOutcome]
    /\ outcome = [p \in Procs |-> NoOutcome]
    /\ resp = [p \in Procs |-> NoResponse]
    /\ conns = <<>>

Init ==
    /\ InitEngine
    /\ bq = NoCall
    /\ bres = NotBuilt

(***************************************************************************)
(* Handlers: a request arrives and the ladder runs up to the engine        *)
(* operation's first await, or to the handler's end when none is called    *)
(***************************************************************************)
Handle(p, r) ==
    LET b == Ladder(r) IN
    /\ pc[p] = "idle"
    /\ req' = [req EXCEPT ![p] = r]
    /\ branch' = [branch EXCEPT ![p] = b]
    /\ IF b.kind = "call"
       THEN /\ call' = [call EXCEPT ![p] = b.call]
            /\ pc' = [pc EXCEPT ![p] = "connect"]
            /\ resp' = resp
       ELSE /\ call' = call
            /\ pc' = [pc EXCEPT ![p] = "done"]
            /\ resp' = [resp EXCEPT ![p] = Respond(r, b, NoOutcome)]
    /\ UNCHANGED <<conn, pending, outcome, conns, bq, bres>>

call_tool(p, R) ==
    /\ pc[p] = "idle"
    /\ \E r \in R : r.front = "stdio" /\ Handle(p, r)

execute_tool(p, R) ==
    /\ pc[p] = "idle"
    /\ \E r \in R : r.front = "http1" /\ Handle(p, r)

execute_tool2(p, R) ==
    /\ pc[p] = "idle"
    /\ \E r \in R : r.front = "http2" /\ Handle(p, r)


(***************************************************************************)
(* Engine operations: conn = await self._get_connection(); try: build and  *)
(* await the statement; finally: await conn.close()                        *)
(***************************************************************************)
\* the operation ends: its result or exception reaches the handler, which
\* answers without a further await
EndOperation(p, o) ==
    /\ outcome' = [outcome EXCEPT ![p] = o]
    /\ resp' = [resp EXCEPT ![p] = Respond(req[p], branch[p], o)]
    /\ pc' = [pc EXCEPT ![p] = "done"]

\* faulty variant of _get_connection: one connection cached on the server
\* object and handed to every invocation
_get_connection_cached(p) ==
    /\ pc[p] = "connect"
    /\ \/ /\ IF Len(conns) = 0
             THEN /\ conns' = Append(conns, Connection(p))
                  /\ conn' = [conn EXCEPT ![p] = 1]
             ELSE /\ conns' = conns
                  /\ conn' = [conn EXCEPT ![p] = 1]
          /\ pc' = [pc EXCEPT ![p] = "try"]
          /\ UNCHANGED <<outcome, resp>>
       \/ /\ EndOperation(p, Raised("ConnectionFailure"))
          /\ UNCHANGED <<conn, conns>>
    /\ UNCHANGED <<req, branch, call, pending, bq, bres>>

_get_connection(p) ==
    /\ pc[p] = "connect"
    /\ \/ /\ conns' = Append(conns, Connection(p))
          /\ conn' = [conn EXCEPT ![p] = Len(conns) + 1]
          /\ pc' = [pc EXCEPT ![p] = "try"]
          /\ UNCHANGED <<outcome, resp>>
       \/ /\ EndOperation(p, Raised("ConnectionFailure"))
          /\ UNCHANGED <<conn, conns>>
    /\ UNCHANGED <<req, branch, call, pending, bq, bres>>

\* the try block of operation op: the statement is built, sent on the
\* operation's connection, and the database answers or fails
TryBlock(p, op) ==
    LET q == Query(call[p])
        c == conn[p]
    IN
    /\ IF q.kind = "raised"
       THEN /\ pending' = [pending EXCEPT ![p] = Raised(q.exc)]
            /\ conns' = conns
       ELSE /\ conns' = [conns EXCEPT ![c].stmts = Append(@, q),
                                      ![c].users = @ \cup {p}]
            /\ \/ \E e \in Envelopes(op) :
                    pending' = [pending EXCEPT ![p] = Returned(e)]
               \/ pending' = [pending EXCEPT ![p] = Raised("ExecutionFailure")]
    /\ pc' = [pc EXCEPT ![p] = "finally"]
    /\ UNCHANGED <<req, branch, call, conn, outcome, resp, bq, bres>>

_create_record(p) ==
    /\ pc[p] = "try"
    /\ call[p].op = "create_record"
    /\ TryBlock(p, "create_record")

_read_records(p) ==
    /\ pc[p] = "try"
    /\ call[p].op = "read_records"
    /\ TryBlock(p, "read_records")

_update_records(p) ==
    /\ pc[p] = "try"
    /\ call[p].op = "update_records"
    /\ TryBlock(p, "update_records")

_delete_records(p) ==
    /\ pc[p] = "try"
    /\ call[p].op = "delete_records"
    /\ TryBlock(p, "delete_records")

_list_tables(p) ==
    /\ pc[p] = "try"
    /\ call[p].op = "list_tables"
    /\ TryBlock(p, "list_tables")

_describe_table(p) ==
    /\ pc[p] = "try"
    /\ call[p].op = "describe_table"
    /\ TryBlock(p, "describe_table")

_get_base_site(p) ==
    /\ pc[p] = "try"
    /\ call[p].op = "get_base_site"
    /\ TryBlock(p, "get_base_site")


\* faulty variant of close: no finally, the connection is closed only when
\* the try block returned
close_on_success_only(p) ==
    LET c == conn[p] IN
    /\ pc[p] = "finally"
    /\ conns' = IF pending[p].kind = "raised" THEN conns
                ELSE [conns EXCEPT ![c].open = FALSE,
                                   ![c].closes = @ + 1,
                                   ![c].closers = @ \cup {p}]
    /\ EndOperation(p, pending[p])
    /\ UNCHANGED <<req, branch, call, conn, pending, bq, bres>>

\* finally: await conn.close(); then the return or the exception goes on
close(p) ==
    LET c == conn[p] IN
    /\ pc[p] = "finally"
    /\ conns' = [conns EXCEPT ![c].open = FALSE,
                              ![c].closes = @ + 1,
                              ![c].closers = @ \cup {p}]
    /\ EndOperation(p, pending[p])
    /\ UNCHANGED <<req, branch, call, conn, pending, bq, bres>>

Engine(p) ==
    \/ _get_connection(p)
    \/ _create_record(p)
    \/ _read_records(p)
    \/ _update_records(p)
    \/ _delete_records(p)
    \/ _list_tables(p)
    \/ _describe_table(p)
    \/ _get_base_site(p)
    \/ close(p)

\* one invocation, any request
Next ==
    \/ call_tool(1, Requests)
    \/ execute_tool(1, Requests)
    \/ execute_tool2(1, Requests)
    \/ Engine(1)

Spec == Init /\ [][Next]_vars

(***************************************************************************)
(* Concurrent invocations on one server object                             *)
(***************************************************************************)
ConcTools ==
    {<<"stdio", "pg_create_record">>, <<"stdio", "pg_read_records">>,
     <<"stdio", "pg_update_records">>, <<"http1", "pg_delete_records">>,
     <<"http1", "pg_list_tables">>, <<"http2", "pg_describe_table">>,
     <<"http2", "get_base_site">>}

ConcRequests ==
    { [front |-> x[1], tool |-> x[2], table |-> t,
       data |-> Dict(<<Item("id", StrV("Alice"))>>),
       conditions |-> Dict(<<Item("id", StrV("Alice"))>>),
       limit |-> AbsentLimit] : x \in ConcTools, t \in Tables }

NextConc ==
    \E p \in Procs :
        \/ call_tool(p, ConcRequests)
        \/ execute_tool(p, ConcRequests)
        \/ execute_tool2(p, ConcRequests)
        \/ Engine(p)

SpecConc == Init /\ [][NextConc]_vars

(***************************************************************************)
(* The query builders alone, over every mapping up to MaxLen items         *)
(***************************************************************************)
BuildDicts == {None} \cup { Dict(d) : d \in Dicts(Columns, Values, MaxLen) }
BuildLimits == {NoLimit} \cup { Limit(n) : n \in 0..MaxLimit }

BuildInputs ==
    { Call("create_record", t, d, None, NoLimit) : t \in Tables, d \in BuildDicts }
    \cup { Call("read_records", x[1], None, x[2], x[3]) :
             x \in Tables \X BuildDicts \X BuildLimits }
    \cup { Call("update_records", x[1], x[2], x[3], NoLimit) :
             x \in Tables \X BuildDicts \X BuildDicts }
    \cup { Call("delete_records", t, None, c, NoLimit) : t \in Tables, c \in BuildDicts }

InitBuild ==
    /\ InitEngine
    /\ bq \in BuildInputs
    /\ bres = NotBuilt

BuildStep(q) ==
    /\ bres.kind = "none"
    /\ bres' = q
    /\ UNCHANGED <<pc, req, branch, call, conn, pending, outcome, resp, conns, bq>>

build_create ==
    /\ bq.op = "create_record"
    /\ BuildStep(create_query(bq.table, bq.data))

build_read ==
    /\ bq.op = "read_records"
    /\ BuildStep(read_query(bq.table, bq.conditions, bq.limit))

build_update ==
    /\ bq.op = "update_records"
    /\ BuildStep(update_query(bq.table, bq.data, bq.conditions))

build_delete ==
    /\ bq.op = "delete_records"
    /\ BuildStep(delete_query(bq.table, bq.conditions))

NextBuild == build_create \/ build_read \/ build_update \/ build_delete

SpecBuild == InitBuild /\ [][NextBuild]_vars

(***************************************************************************)
(* Properties                                                              *)
(***************************************************************************)
IsPh(t) == t.kind = "ph"
IsId(t) == t.kind = "id"
Placeholders(sql) == SelectSeq(sql, IsPh)
Identifiers(sql) == SelectSeq(sql, IsId)
Numbers(phs) == [i \in 1..Len(phs) |-> phs[i].n]
UpTo(n) == [i \in 1..n |-> i]
Position(sql, t) == CHOOSE i \in 1..Len(sql) : sql[i] = t

\* the <<column, placeholder index>> pairs of the `col = $n` clauses of part
ClausePairs(part) ==
    LET at == SelectSeq([j \in 1..Len(part) |-> j], LAMBDA j : part[j].kind = "ph")
    IN  [i \in 1..Len(at) |->
            IF at[i] > 2 /\ part[at[i] - 1] = Kw("=") /\ part[at[i] - 2].kind = "id"
            THEN <<part[at[i] - 2].text, part[at[i]].n>>
            ELSE <<"?", part[at[i]].n>>]

ValuesOf(a) == IF a.tag = "dict" THEN values(a.items) ELSE <<>>
ValueOfKey(d, k) == d[CHOOSE i \in 1..Len(d) : d[i].k = k].v

\* a required mapping of the operation is missing (None) or empty
MissingMapping(c) ==
    \/ c.op = "create_record" /\ ~TruthyDict(c.data)
    \/ c.op = "update_records" /\ (~TruthyDict(c.data) \/ ~TruthyDict(c.conditions))
    \/ c.op = "delete_records" /\ ~TruthyDict(c.conditions)

Owned(p) == { i \in 1..Len(conns) : conns[i].owner = p }

\* C1: create_record with a missing or empty data mapping, update_records
\* with a missing or empty data or conditions mapping and delete_records with
\* a missing or empty conditions mapping are rejected before any connection
\* is opened: such a call never acquires a connection nor sends a statement.
C1_RejectedBeforeConnection ==
    \A p \in Procs :
        MissingMapping(call[p]) =>
            /\ conn[p] = 0
            /\ Owned(p) = {}
            /\ outcome[p].kind = "raised" => outcome[p].exc = "InvalidArgument"

\* C2: no engine operation raises past its own boundary: a failure of the
\* connection, of the build or of the statement ends the operation with a
\* returned failure envelope (success = false), never with an exception.
C2_NeverRaises ==
    \A p \in Procs :
        outcome[p].kind /= "none" =>
            /\ outcome[p].kind = "returned"
            /\ pending[p].kind = "raised" => ~outcome[p].success

\* C3: a connection an operation acquired is closed exactly once before the
\* operation ends, whatever its statement's outcome; the operation executes
\* at most one statement on it; no connection opened by an operation is open
\* once the operation has returned or failed.
C3_ConnectionLifecycle ==
    /\ \A i \in 1..Len(conns) :
          /\ conns[i].closes <= 1
          /\ Len(conns[i].stmts) <= 1
          /\ conns[i].open <=> conns[i].closes = 0
    /\ \A p \in Procs :
          /\ Cardinality(Owned(p)) <= 1
          /\ pc[p] = "done" =>
                \A i \in Owned(p) : ~conns[i].open /\ conns[i].closes = 1

C3_Witness ==
    \E p \in Procs :
        /\ pc[p] = "done"
        /\ outcome[p] = Raised("ExecutionFailure")
        /\ conn[p] /= 0
        /\ conns[conn[p]].closes = 1
        /\ Len(conns[conn[p]].stmts) = 1

\* C4: an update with k data columns and m condition columns uses the
\* placeholders $1..$(k+m), each once: SET uses $1..$k in data-key order,
\* WHERE uses $(k+1)..$(k+m) in condition-key order, and the parameters are
\* the data values followed by the condition values in those orders.
C4_UpdatePlaceholders ==
    (bq.op = "update_records" /\ bres.kind = "built") =>
        LET d == bq.data.items
            c == bq.conditions.items
            k == Len(d)
            m == Len(c)
            w == Position(bres.sql, Kw("WHERE"))
        IN  /\ Numbers(Placeholders(bres.sql)) = UpTo(k + m)
            /\ ClausePairs(SubSeq(bres.sql, 1, w - 1))
                 = [i \in 1..k |-> <<d[i].k, i>>]
            /\ ClausePairs(SubSeq(bres.sql, w + 1, Len(bres.sql)))
                 = [i \in 1..m |-> <<c[i].k, k + i>>]
            /\ bres.params = values(d) \o values(c)

C4_Witness ==
    /\ bq = Call("update_records", "users", Dict(<<Item("age", IntV("31"))>>),
                 Dict(<<Item("id", IntV("1"))>>), NoLimit)
    /\ bres.sql = <<Kw("UPDATE"), Id("users"), Kw("SET"), Id("age"), Kw("="), Ph(1),
                    Kw("WHERE"), Id("id"), Kw("="), Ph(2)>>
    /\ bres.params = <<IntV("31"), IntV("1")>>

\* C5: for a non-empty data mapping the INSERT lists len(data) columns and
\* exactly the placeholders $1..$len(data) in its VALUES list, and the i-th
\* parameter is the value of the i-th emitted column.
C5_CreatePlaceholders ==
    (bq.op = "create_record" /\ bres.kind = "built" /\ Len(bq.data.items) > 0) =>
        LET d == bq.data.items
            v == Position(bres.sql, Kw(") VALUES ("))
            cols == Identifiers(SubSeq(bres.sql, 3, v - 1))
            phs == Placeholders(SubSeq(bres.sql, v + 1, Len(bres.sql)))
        IN  /\ Len(cols) = Len(d)
            /\ Len(phs) = Len(d)
            /\ Placeholders(bres.sql) = phs
            /\ Numbers(phs) = UpTo(Len(d))
            /\ Len(bres.params) = Len(d)
            /\ \A i \in 1..Len(d) : bres.params[i] = ValueOfKey(d, cols[i].text)

C5_Witness ==
    /\ bq = Call("create_record", "users",
                 Dict(<<Item("age", IntV("31")), Item("id", IntV("1"))>>), None, NoLimit)
    /\ bres.sql = <<Kw("INSERT INTO"), Id("users"), Kw("("), Id("age"), Kw(","), Id("id"),
                    Kw(") VALUES ("), Ph(1), Kw(","), Ph(2), Kw(") RETURNING id;")>>
    /\ bres.params = <<IntV("31"), IntV("1")>>

\* C6: a read given a limit n >= 0 (n = 0 included) carries `LIMIT n` as an
\* inlined literal and binds only the condition values; the statement has no
\* LIMIT clause only when no limit was supplied.
C6_LimitInlined ==
    (bq.op = "read_records" /\ bres.kind = "built") =>
        LET n == Len(bres.sql) IN
        /\ bq.limit.tag = "int" =>
              /\ n >= 2
              /\ SubSeq(bres.sql, n - 1, n) = <<Kw("LIMIT"), Lit(bq.limit.n)>>
        /\ (\A i \in 1..n : bres.sql[i] /= Kw("LIMIT")) => bq.limit.tag = "none"
        /\ bres.params = ValuesOf(bq.conditions)

\* the calls that differ from c in their data / condition values only
Revalued(a) ==
    IF a.tag /= "dict" THEN {a}
    ELSE { Dict([i \in 1..Len(a.items) |-> Item(a.items[i].k, f[i])]) :
             f \in [1..Len(a.items) -> Values] }
SameShape(c) ==
    { Call(c.op, c.table, d, cn, c.limit) :
        d \in Revalued(c.data), cn \in Revalued(c.conditions) }

\* C7: values never reach SQL text: create, read, update and delete calls
\* with the same table, the same columns in the same order and the same
\* limit but other values produce the same SQL text, and the data and
\* condition values appear in the bound-parameter list only.
C7_ValuesOnlyBound ==
    bres.kind = "built" =>
        /\ \A alt \in SameShape(bq) : Query(alt).sql = bres.sql
        /\ \A i \in 1..Len(bres.sql) : bres.sql[i].kind \in {"kw", "id", "ph", "lit"}
        /\ bres.params = ValuesOf(bq.data) \o ValuesOf(bq.conditions)

C7_Witness ==
    /\ bres.kind = "built"
    /\ bq.op = "delete_records"
    /\ bres.params = <<IntV("1"), IntV("31")>>
    /\ Query(Call("delete_records", bq.table, None,
                    Dict(<<Item(bq.conditions.items[1].k, IntV("31")),
                           Item(bq.conditions.items[2].k, IntV("1"))>>),
                    NoLimit)).sql = bres.sql

\* C8: in every interleaving of concurrent invocations each invocation
\* acquires its own fresh connection, no connection is used or closed by an
\* invocation other than the one that opened it, and once every invocation
\* has finished no connection is left open.
C8_PrivateConnections ==
    /\ \A p, q \in Procs : (p /= q /\ conn[p] /= 0) => conn[p] /= conn[q]
    /\ \A p \in Procs :
          /\ conn[p] /= 0 => conns[conn[p]].owner = p
          /\ (conn[p] /= 0 /\ pc[p] = "try") =>
                /\ conns[conn[p]].open
                /\ conns[conn[p]].stmts = <<>>
                /\ conns[conn[p]].users = {}
    /\ \A i \in 1..Len(conns) :
          /\ conns[i].users \subseteq {conns[i].owner}
          /\ conns[i].closers \subseteq {conns[i].owner}
          /\ conns[i].closes <= 1
    /\ (\A p \in Procs : pc[p] = "done") =>
          \A i \in 1..Len(conns) : ~conns[i].open

C8_Witness ==
    \E p, q \in Procs :
        /\ p /= q
        /\ pc[p] = "finally" /\ pc[q] = "finally"
        /\ conns[conn[p]].open /\ conns[conn[q]].open
        /\ conns[conn[p]].users = {p} /\ conns[conn[q]].users = {q}

\* C9: every tool name of the catalog is mapped to one engine operation and
\* the stdio dispatcher and both HTTP /execute handlers agree on it: for the
\* same name and arguments all three invoke the same operation with the same
\* arguments and none takes its unknown-tool branch.
C9_DispatchersAgree ==
    \A p \in Procs :
        (pc[p] /= "idle" /\ req[p].tool \in ToolCatalog) =>
            /\ branch[p].kind /= "unknown"
            /\ \A f \in Fronts :
                  LET other == Ladder([req[p] EXCEPT !.front = f]) IN
                  /\ other.kind /= "unknown"
                  /\ other.call = branch[p].call

\* C10: an HTTP /execute request whose tool_name matches no branch is
\* answered with status 400, not 500, and opens no database connection.
C10_UnknownToolIs400 ==
    \A p \in Procs :
        (pc[p] = "done" /\ req[p].front \in {"http1", "http2"}
            /\ branch[p].kind = "unknown") =>
            /\ resp[p].status = 400
            /\ conn[p] = 0
            /\ Owned(p) = {}

====
